---- MODULE Spec2Model ----
(***************************************************************************)
(* ReviewMate task pane (src/taskpane/word.ts, src/taskpane/openai.ts).    *)
(*                                                                         *)
(* Text is a sequence of tokens: "a" is a visible character, "_" a blank,  *)
(* "n" a line break, "V" the header word `Variant <digits>` with its       *)
(* optional colon.  JSON text is a sequence of the tokens                  *)
(*   "{" "}" "[" "]"  "k" (a member name with its colon)  "1" (a number)   *)
(*   "_" (a blank)  "x" (a word of prose)  "F" (three backticks)           *)
(*   "J" (three backticks followed by json).                               *)
(***************************************************************************)
EXTENDS Integers, Sequences, FiniteSets, TLC

VARIABLES
    pc, act, status, busy, unhandled,
    lastInput, lastFocuses, lastCustom, lastComments, lastSummary,
    officeAvail, officeStore, sessStore,
    text, result, idx, request,
    queue, applied, searched,
    hostInFlight, netInFlight, storInFlight, fetches,
    inputFresh, inputSettings,
    fpc, fin, fout

uiVars    == <<pc, act, status, busy, unhandled>>
lastVars  == <<lastInput, lastFocuses, lastCustom, lastComments, lastSummary>>
storeVars == <<officeAvail, officeStore, sessStore>>
localVars == <<text, result, idx, request>>
hostVars  == <<queue, applied, searched>>
flightVars == <<hostInFlight, netInFlight, storInFlight, fetches>>
histVars  == <<inputFresh, inputSettings>>
funVars   == <<fpc, fin, fout>>
paneVars  == <<uiVars, lastVars, storeVars, localVars, hostVars, flightVars, histVars>>
vars      == <<paneVars, funVars>>

----------------------------------------------------------------------------
(* Bounds of the model *)

MaxTextLen == 4      \* longest JSON token text given to extractJson
MaxArr     == 22     \* longest `comments` array given to the normaliser
PatLen     == 2      \* period of the entry pattern filling that array
MaxParaLen == 5      \* longest completion text given to the variant splitter
MaxDepth   == 1      \* deepest nesting of a JSON value that gets wrapped
MaxProse   == 1      \* longest text put before, and after, a wrapped JSON text

(* Program constants *)

MaxComments == 10    \* norm.slice(0, 10)
MinQuoteLen == 4     \* c.quote.trim().length >= 4
MAX         == 7000  \* reviewDocument's input cap
MinVariants == 1     \* Math.max(variants, 1)
MaxVariants == 3     \* Math.min(..., 3)

DEFAULT_SETTINGS == [apiKey |-> "", baseUrl |-> "https://api.openai.com/v1", model |-> "gpt-4o-mini"]

----------------------------------------------------------------------------
(* Sentinels for JavaScript's null and undefined *)

Null      == <<"#null">>
Undefined == <<"#undefined">>

(* Sequences over S of length at most n *)
SeqUpTo(S, n) == UNION {[1..k -> S] : k \in 0..n}

----------------------------------------------------------------------------
(* String.prototype.trim on token text: blanks and line breaks are white *)

IsWhite(c) == c \in {"_", "n"}

RECURSIVE TrimLeft(_)
TrimLeft(s) == IF s # <<>> /\ IsWhite(Head(s)) THEN TrimLeft(Tail(s)) ELSE s

RECURSIVE TrimRight(_)
TrimRight(s) ==
    IF s # <<>> /\ IsWhite(s[Len(s)]) THEN TrimRight(SubSeq(s, 1, Len(s) - 1)) ELSE s

Trim(s) == TrimRight(TrimLeft(s))

----------------------------------------------------------------------------
(* openai.ts: normalisation of the parsed response (lines 166-181)        *)
(*                                                                         *)
(* A parsed response is [nul, commentsT, comments, summaryT, summary]:     *)
(* nul says the parsed value is null, commentsT and summaryT are the       *)
(* JavaScript types of its two fields.  An array entry is                  *)
(* [obj, comment, severity, quote]: obj is FALSE for null, comment is      *)
(* [t, v] with its type and, for a string, the identity of the string.     *)

QLong     == <<"a", "a", "a", "a">>
QShort    == <<"a", "a">>
QPad      == <<"_", "a", "a", "a", "_">>
NotString == <<"#number">>
NoSeverity == "#undefined"
NoSummary  == "#undefined"

Severities == {"info", "suggestion", "warning"}

EntryKinds == 1..6

Entry(i, kind) ==
    CASE kind = 1 -> [obj |-> TRUE,  comment |-> [t |-> "str", v |-> i], severity |-> "warning",    quote |-> QLong]
      [] kind = 2 -> [obj |-> TRUE,  comment |-> [t |-> "str", v |-> i], severity |-> "bogus",      quote |-> Undefined]
      [] kind = 3 -> [obj |-> TRUE,  comment |-> [t |-> "num", v |-> i], severity |-> "info",       quote |-> QShort]
      [] kind = 4 -> [obj |-> FALSE, comment |-> [t |-> "undef", v |-> i], severity |-> NoSeverity, quote |-> Undefined]
      [] kind = 5 -> [obj |-> TRUE,  comment |-> [t |-> "str", v |-> i], severity |-> "suggestion", quote |-> NotString]
      [] kind = 6 -> [obj |-> TRUE,  comment |-> [t |-> "str", v |-> i], severity |-> NoSeverity,   quote |-> QPad]

(* The response whose `comments` has n entries, entry i of kind pat[i mod Len(pat)] *)
MkParsed(n, pat, commentsT, summaryT) ==
    [nul       |-> FALSE,
     commentsT |-> commentsT,
     comments  |-> [i \in 1..n |-> Entry(i, pat[((i - 1) % Len(pat)) + 1])],
     summaryT  |-> summaryT,
     summary   |-> "s1"]

ParsedNull == [nul |-> TRUE, commentsT |-> "undef", comments |-> <<>>, summaryT |-> "undef", summary |-> "s1"]

IsString(q) == q # Undefined /\ q # NotString

Keeps(c) == c.obj /\ c.comment.t = "str"

(* the severity passed through as it came *)
NormalizeSeverityUnmapped(sev) == sev

NormalizeSeverity(sev) == IF sev = "warning" \/ sev = "suggestion" THEN sev ELSE "info"

NormalizeComment(c) ==
    [quote    |-> IF IsString(c.quote) THEN c.quote ELSE Undefined,
     comment  |-> c.comment.v,
     severity |-> NormalizeSeverity(c.severity)]

Slice(s, n) == SubSeq(s, 1, IF Len(s) < n THEN Len(s) ELSE n)

(* comments.filter(...).map(...) *)
FilterMap(comments) ==
    LET kept == SelectSeq(comments, Keeps)
    IN  [i \in 1..Len(kept) |-> NormalizeComment(kept[i])]

(* lines.map((l) => l.trim()) *)
TrimEach(ls) == [i \in 1..Len(ls) |-> Trim(ls[i])]

NormalizeResult(parsed) ==
    LET comments == IF ~parsed.nul /\ parsed.commentsT = "arr" THEN parsed.comments ELSE <<>>
        summary  == IF ~parsed.nul /\ parsed.summaryT = "str" THEN parsed.summary ELSE NoSummary
        norm     == FilterMap(comments)
    IN  [comments |-> Slice(norm, MaxComments), summary |-> summary]

----------------------------------------------------------------------------
(* openai.ts: extractJson (lines 111-128) and the JSON.parse it calls     *)
(*                                                                         *)
(* A JSON value is <<tag, children>>: <<"num", <<>>>>, <<"obj", <<>>>>,    *)
(* <<"obj", <<v>>>> (one member named k), <<"arr", <<>>>>, <<"arr", <<v>>>>*)

JsonTokens == {"{", "}", "[", "]", "k", "1", "_", "x", "F", "J"}

NoValue == <<"none", <<>>>>
ParseFail == [ok |-> FALSE, val |-> NoValue, next |-> 0]

RECURSIVE SkipWs(_, _)
SkipWs(s, i) == IF i <= Len(s) /\ s[i] = "_" THEN SkipWs(s, i + 1) ELSE i

At(s, i) == IF i >= 1 /\ i <= Len(s) THEN s[i] ELSE "#end"

RECURSIVE ParseValueAt(_, _)
ParseValueAt(s, i) ==
    LET i0 == SkipWs(s, i)
        c  == At(s, i0)
    IN  IF c = "1" THEN [ok |-> TRUE, val |-> <<"num", <<>>>>, next |-> i0 + 1]
        ELSE IF c = "{" \/ c = "[" THEN
            LET tag   == IF c = "{" THEN "obj" ELSE "arr"
                close == IF c = "{" THEN "}" ELSE "]"
                i1    == SkipWs(s, i0 + 1)
                \* an object member starts with its name, an array element does not
                i2    == IF c = "{" THEN i1 + 1 ELSE i1
            IN  IF At(s, i1) = close THEN [ok |-> TRUE, val |-> <<tag, <<>>>>, next |-> i1 + 1]
                ELSE IF c = "{" /\ At(s, i1) # "k" THEN ParseFail
                ELSE LET r  == ParseValueAt(s, i2)
                         i3 == SkipWs(s, r.next)
                     IN  IF r.ok /\ At(s, i3) = close
                         THEN [ok |-> TRUE, val |-> <<tag, <<r.val>>>>, next |-> i3 + 1]
                         ELSE ParseFail
        ELSE ParseFail

(* JSON.parse: the whole text is one value, blanks around it allowed *)
JsonParse(s) ==
    LET r == ParseValueAt(s, 1)
    IN  IF r.ok /\ SkipWs(s, r.next) > Len(s) THEN r ELSE ParseFail

(* JSON.stringify *)
RECURSIVE Stringify(_)
Stringify(v) ==
    LET inner == IF v[2] = <<>> THEN <<>> ELSE Stringify(v[2][1])
    IN  CASE v[1] = "num" -> <<"1">>
          [] v[1] = "obj" -> <<"{">> \o (IF v[2] = <<>> THEN <<>> ELSE <<"k">> \o inner) \o <<"}">>
          [] v[1] = "arr" -> <<"[">> \o inner \o <<"]">>

(* text.indexOf(c) and text.lastIndexOf(c), 1-based, 0 when c is absent *)
IndexOf(s, c) ==
    IF \E i \in 1..Len(s) : s[i] = c
    THEN CHOOSE i \in 1..Len(s) : s[i] = c /\ \A m \in 1..(i - 1) : s[m] # c
    ELSE 0

LastIndexOf(s, c) ==
    IF \E i \in 1..Len(s) : s[i] = c
    THEN CHOOSE i \in 1..Len(s) : s[i] = c /\ \A m \in (i + 1)..Len(s) : s[m] # c
    ELSE 0

(* candidate.replace(/```json|```/g, "") *)
IsNoFence(c) == c \notin {"F", "J"}
StripFences(s) == SelectSeq(s, IsNoFence)

(* text.slice(first, last): the closing brace left out *)
SliceSpanExclusive(txt, first, last) == SubSeq(txt, first, last - 1)

(* text.slice(first, last + 1), first and last 1-based *)
SliceSpan(txt, first, last) == SubSeq(txt, first, last)

MalformedResponse == "LLM did not return JSON."
SyntaxError       == "SyntaxError"

Parsed(r, stage) == [kind |-> "value", val |-> r.val,   err |-> "",  stage |-> stage]
Thrown(e, stage) == [kind |-> "error", val |-> NoValue, err |-> e,   stage |-> stage]

extractJson(txt) ==
    LET whole == JsonParse(txt)
        first == IndexOf(txt, "{")
        last  == LastIndexOf(txt, "}")
        candidate == SliceSpan(txt, first, last)
        second == JsonParse(candidate)
        third  == JsonParse(StripFences(candidate))
    IN  IF whole.ok THEN Parsed(whole, 1)
        ELSE IF first >= 1 /\ last > first
             THEN IF second.ok THEN Parsed(second, 2)
                  ELSE IF third.ok THEN Parsed(third, 3)
                  ELSE Thrown(SyntaxError, 3)
             ELSE Thrown(MalformedResponse, 1)

----------------------------------------------------------------------------
(* openai.ts: the variant splitter of generateParaphrasedText (258-289)   *)

ParaTokens == {"V", "a", "_", "n"}

(* text.split(/\r?\n/) *)
RECURSIVE Split(_)
Split(s) ==
    LET i == IndexOf(s, "n")
    IN  IF i = 0 THEN <<s>>
        ELSE <<SubSeq(s, 1, i - 1)>> \o Split(SubSeq(s, i + 1, Len(s)))

NonEmpty(l) == l # <<>>

Lines(txt) == SelectSeq(TrimEach(Split(txt)), NonEmpty)

(* headerRegex: the line starts with the header word; the rest of the line *)
(* follows its blanks                                                      *)
IsHeader(ln) == ln # <<>> /\ Head(ln) = "V"
HeaderRest(ln) == TrimLeft(Tail(ln))

NoCurrent == [open |-> FALSE, content |-> <<>>]

(* the for loop: st is [out, current] *)
RECURSIVE ScanLines(_, _)
ScanLines(lines, st) ==
    IF lines = <<>> THEN st
    ELSE LET ln == Head(lines)
             nxt == IF IsHeader(ln)
                    THEN [out |-> IF st.current.open THEN Append(st.out, Trim(st.current.content)) ELSE st.out,
                          current |-> [open |-> TRUE, content |-> HeaderRest(ln)]]
                    ELSE IF st.current.open
                    THEN [out |-> st.out,
                          current |-> [open |-> TRUE,
                                       content |-> st.current.content
                                                   \o (IF st.current.content # <<>> THEN <<"_">> ELSE <<>>)
                                                   \o ln]]
                    ELSE st
         IN  ScanLines(Tail(lines), nxt)

Clamp(n) == IF n < MinVariants THEN MinVariants ELSE IF n > MaxVariants THEN MaxVariants ELSE n

(* the fallback is taken when no variant content is left *)
TakesFallback(cleaned) == cleaned = <<>>

(* raw is what callSimpleCompletion returned: the content, trimmed *)
ParseVariants(raw, variants) ==
    LET n      == Clamp(variants)
        txt    == Trim(raw)
        st     == ScanLines(Lines(txt), [out |-> <<>>, current |-> NoCurrent])
        variantsOut == IF st.current.open THEN Append(st.out, Trim(st.current.content)) ELSE st.out
        cleaned == SelectSeq(TrimEach(variantsOut), NonEmpty)
    IN  IF txt = <<>> THEN [variants |-> <<>>, fallback |-> FALSE]
        ELSE IF TakesFallback(cleaned) THEN [variants |-> <<txt>>, fallback |-> TRUE]
        ELSE [variants |-> Slice(cleaned, n), fallback |-> FALSE]

----------------------------------------------------------------------------
(* openai.ts: the settings store (lines 20-86)                            *)
(* A store maps the three keys to strings; "" is an absent key.           *)

EmptyStore == [apiKey |-> "", baseUrl |-> "", model |-> ""]

(* a || b on strings *)
Or(a, b) == IF a = "" THEN b ELSE a

WithDefaults(st) ==
    [apiKey  |-> Or(st.apiKey, ""),
     baseUrl |-> Or(st.baseUrl, DEFAULT_SETTINGS.baseUrl),
     model   |-> Or(st.model, DEFAULT_SETTINGS.model)]

(* the number of storage reads loadApiSettings has pending at once *)
PendingReads(avail) == IF avail THEN 3 ELSE 0

(* the three setItem of saveApiSettings started together *)
PendingWritesAll(avail) == IF avail THEN 3 ELSE 0

(* the number of storage writes saveApiSettings has pending at once: each *)
(* setItem is awaited before the next; sessionStorage is synchronous      *)
PendingWrites(avail) == IF avail THEN 1 ELSE 0

(* the storage calls of the running action that have not come back *)
Storage(r, w) == [reads |-> r, writes |-> w]
NoStorage == Storage(0, 0)

(* Promise.all rejects with the first getItem that fails, and the other   *)
(* reads, which cannot be cancelled, may still be pending: left of them   *)
ReadsLeft(avail, officeFails, left) == IF avail /\ officeFails THEN left ELSE 0

(* loadApiSettings: a failing OfficeRuntime read is caught and falls back *)
(* to sessionStorage, whose own failure is not caught                     *)
loadApiSettings(avail, office, sess, officeFails, sessFails) ==
    IF avail /\ ~officeFails THEN [ok |-> TRUE, cfg |-> WithDefaults(office)]
    ELSE IF sessFails THEN [ok |-> FALSE, cfg |-> DEFAULT_SETTINGS]
    ELSE [ok |-> TRUE, cfg |-> WithDefaults(sess)]

(* readSettingsFromUI: the model comes from the select box, or from the   *)
(* custom field when "custom" is selected and the field is filled         *)
UiModel(selVal, custom) == IF selVal = "custom" /\ custom # "" THEN custom ELSE selVal

(* { ...loaded, ...settings }: the three keys of settings are always      *)
(* present, so each overrides the loaded value, an undefined one included *)
Merge(loaded, settings) ==
    [apiKey |-> settings.apiKey, baseUrl |-> settings.baseUrl, model |-> settings.model]

STORAGE_KEYS == <<"apiKey", "baseUrl", "model">>

----------------------------------------------------------------------------
(* word.ts: the task pane                                                  *)
(*                                                                         *)
(* pc is the await at which the running action is suspended ("idle" when   *)
(* none runs).  The actions are started one at a time, as the host does.   *)
(* queue holds the host commands issued and not yet sent, applied those    *)
(* the document has carried out for the running (or last) action, and      *)
(* searched the searches that have come back, each with its outcome.       *)
(* inputFresh says that lastInput was written by the review that captured  *)
(* lastFocuses and lastCustom; inputSettings is what lastFocuses and       *)
(* lastCustom were when lastInput was written.                             *)

Statuses == [
    reviewSelection     |-> "Reviewing selection...",
    reviewDocument      |-> "Reviewing document...",
    reviewAgain         |-> "Reviewing again with same settings...",
    trimSelection       |-> "Trimming selection...",
    paraphraseSelection |-> "Paraphrasing selection..."]

EmptyStatus == [
    reviewSelection     |-> "No selection found.",
    reviewDocument      |-> "Document is empty.",
    trimSelection       |-> "No selection found.",
    paraphraseSelection |-> "No selection found."]


ErrorStatus(m) == "Error: " \o m
MissingCredential == "Missing API key. Please set it in Settings."

ReviewActs == {"reviewSelection", "reviewDocument"}
EditActs   == {"trimSelection", "paraphraseSelection"}
ReadActs   == ReviewActs \cup EditActs

(* what the user can have checked and typed *)
UiSettings == {
    [focuses |-> <<>>,          custom |-> ""],
    [focuses |-> <<"grammar">>, custom |-> "be brief"] }

(* what the selection or the body can hold *)
RangeTexts == {<<>>, <<"_">>, <<"_", "a">>}

(* what the endpoint can answer *)
ParsedSamples == {
    MkParsed(0, <<1>>, "arr", "str"),
    MkParsed(2, <<1>>, "arr", "str"),
    MkParsed(3, <<1, 6, 2>>, "arr", "undef"),
    MkParsed(1, <<1>>, "str", "str") }

CompletionTexts == {<<>>, <<"_", "a">>, <<"V", "a", "n", "V", "a">>, <<"V">>}

NoResult  == [set |-> FALSE, comments |-> <<>>, summary |-> NoSummary]
NoRequest == [kind |-> "none", input |-> <<>>, focus |-> <<>>, custom |-> "",
              apiKey |-> "", baseUrl |-> "", model |-> ""]

(* buildPrompt: the three parts of the prompt that vary *)
buildPrompt(input, focuses, custom) ==
    [focus  |-> IF Len(focuses) > 0 THEN focuses ELSE <<"general academic quality">>,
     custom |-> custom,
     input  |-> input]

ReviewRequest(input, focuses, custom, cfg) ==
    LET p == buildPrompt(input, focuses, custom)
    IN  [kind |-> "review", input |-> p.input, focus |-> p.focus, custom |-> p.custom,
         apiKey |-> cfg.apiKey, baseUrl |-> cfg.baseUrl, model |-> cfg.model]

SimpleRequest(kind, input, cfg) ==
    [kind |-> kind, input |-> input, focus |-> <<>>, custom |-> "",
     apiKey |-> cfg.apiKey, baseUrl |-> cfg.baseUrl, model |-> cfg.model]

(* host commands: they wait in the request context until the next sync *)
Cmd(op, anchor, k, txt) == [op |-> op, anchor |-> anchor, k |-> k, txt |-> txt]
LoadCmd            == Cmd("load", "range", 0, <<>>)
SearchCmd(k, q)    == Cmd("search", "range", k, q)
CommentCmd(an, k)  == Cmd("insertComment", an, k, <<>>)
ReplaceCmd(txt)    == Cmd("insertText", "range", 0, txt)
ParagraphCmd(k, txt) == Cmd("insertParagraph", "end", k, txt)

IsMutation(c) == c.op \in {"insertComment", "insertText", "insertParagraph"}
Mutations(q)  == SelectSeq(q, IsMutation)

(* the quote measured as it came, without the trim *)
SearchesUntrimmed(c) == c.quote # Undefined /\ c.quote # <<>> /\ Len(c.quote) >= MinQuoteLen

(* insertCommentsForRange: the quote is searched for when it is long enough *)
Searches(c) == c.quote # Undefined /\ c.quote # <<>> /\ Len(Trim(c.quote)) >= MinQuoteLen

(* the loop with context.sync() started but not awaited: it runs on *)
RECURSIVE RunLoopNoAwait(_, _, _)
RunLoopNoAwait(comments, i, q) ==
    IF i > Len(comments) THEN [idx |-> i, queue |-> q, syncs |-> 0]
    ELSE IF Searches(comments[i])
         THEN LET r == RunLoopNoAwait(comments, i + 1,
                                      Append(q, SearchCmd(i, Trim(comments[i].quote))))
              IN  [idx |-> i, queue |-> r.queue, syncs |-> r.syncs + 1]
         ELSE RunLoopNoAwait(comments, i + 1, Append(q, CommentCmd("range", comments[i].comment)))

(* insertCommentsForRange from comment i on, up to its next await: a       *)
(* comment without a searched quote is queued on the whole range; one with *)
(* a searched quote queues the search, starts a context.sync() and waits   *)
RECURSIVE RunLoop(_, _, _)
RunLoop(comments, i, q) ==
    IF i > Len(comments) THEN [idx |-> i, queue |-> q, syncs |-> 0]
    ELSE IF Searches(comments[i])
         THEN [idx |-> i, queue |-> Append(q, SearchCmd(i, Trim(comments[i].quote))), syncs |-> 1]
         ELSE RunLoop(comments, i + 1, Append(q, CommentCmd("range", comments[i].comment)))

(* setStatus: the message and, for the "Inserted n ..." messages, n *)
Status(m) == [msg |-> m, n |-> 0]

InsertedStatus(a, n) ==
    [msg |-> IF a = "reviewSelection" THEN "Inserted comment(s) on selection."
             ELSE IF a = "reviewDocument" THEN "Inserted comment(s) across document."
             ELSE "Inserted additional comment(s).",
     n   |-> n]

----------------------------------------------------------------------------
(* Initial state: the module-level variables of word.ts as declared, the   *)
(* pane after Office.onReady, and whatever an earlier session stored       *)

StoredSamples == {EmptyStore, [apiKey |-> "k1", baseUrl |-> "u1", model |-> "m1"]}

PaneInit ==
    /\ pc = "idle" /\ act = "none" /\ status = Status("Ready.") /\ busy = FALSE
    /\ unhandled = FALSE
    /\ lastInput = Null /\ lastFocuses = <<>> /\ lastCustom = ""
    /\ lastComments = <<>> /\ lastSummary = NoSummary
    /\ officeAvail \in BOOLEAN
    /\ officeStore \in (IF officeAvail THEN StoredSamples ELSE {EmptyStore})
    /\ sessStore = EmptyStore
    /\ text = <<>> /\ result = NoResult /\ idx = 0 /\ request = NoRequest
    /\ queue = <<>> /\ applied = <<>> /\ searched = <<>>
    /\ hostInFlight = 0 /\ netInFlight = 0 /\ storInFlight = NoStorage /\ fetches = 0
    /\ inputFresh = FALSE /\ inputSettings = [focuses |-> <<>>, custom |-> ""]

FunIdle == fpc = "none" /\ fin = <<>> /\ fout = <<>>

Init == PaneInit /\ FunIdle

(* what every action start resets: the locals of the new invocation *)
Fresh ==
    /\ text' = <<>> /\ result' = NoResult /\ idx' = 0 /\ request' = NoRequest
    /\ applied' = <<>> /\ fetches' = 0 /\ unhandled' = FALSE
    /\ storInFlight' = NoStorage
    /\ searched' = <<>>

(* the catch clause and the finally clause of an action *)
Caught(m) ==
    /\ status' = Status(ErrorStatus(m))
    /\ busy' = FALSE
    /\ pc' = "idle"

(* an end of the batch function that leaves the busy flag as it is *)
EndsStillBusy(m) ==
    /\ status' = Status(m)
    /\ UNCHANGED busy
    /\ pc' = "idle"

(* a normal end of the batch function: status, then finally.  With no     *)
(* command left in the request context the sync that closes Word.run has  *)
(* nothing to send and makes no round trip.                               *)
Ends(m) ==
    /\ status' = Status(m)
    /\ busy' = FALSE
    /\ pc' = "idle"

----------------------------------------------------------------------------
(* reviewSelection (128-168) and reviewDocument (170-212), up to the first *)
(* context.sync()                                                          *)
StartReview(a, focuses, custom) ==
    /\ pc = "idle"
    /\ act' = a
    /\ status' = Status(Statuses[a])
    /\ busy' = TRUE
    /\ lastComments' = <<>>
    /\ lastSummary' = NoSummary
    /\ lastFocuses' = focuses
    /\ lastCustom' = custom
    /\ Fresh
    /\ queue' = <<LoadCmd>>
    /\ hostInFlight' = hostInFlight + 1
    /\ pc' = "read"
    /\ inputFresh' = FALSE
    /\ UNCHANGED <<lastInput, storeVars, netInFlight, inputSettings, funVars>>

(* trimSelection (247-284) and paraphraseSelection (286-316), likewise *)
StartEdit(a) ==
    /\ pc = "idle"
    /\ act' = a
    /\ status' = Status(Statuses[a])
    /\ busy' = TRUE
    /\ Fresh
    /\ queue' = <<LoadCmd>>
    /\ hostInFlight' = hostInFlight + 1
    /\ pc' = "read"
    /\ UNCHANGED <<lastVars, storeVars, netInFlight, histVars, funVars>>

(* reviewAgain (214-245), up to its context.sync() *)
StartAgain ==
    /\ pc = "idle"
    /\ act' = "reviewAgain"
    /\ Fresh
    /\ IF lastInput = Null
       THEN /\ status' = Status("Nothing to review again. Run a review first.")
            /\ UNCHANGED <<pc, busy, queue, hostInFlight>>
       ELSE /\ status' = Status(Statuses["reviewAgain"])
            /\ busy' = TRUE
            /\ queue' = <<>>
            /\ hostInFlight' = hostInFlight + 1
            /\ pc' = "read"
    /\ UNCHANGED <<lastVars, storeVars, netInFlight, histVars, funVars>>

(* the text tested as read, without the trim *)
IsEmptyInputUntrimmed(t) == t = <<>>

(* const text = (range.text || "").trim(); if (!text) ... *)
IsEmptyInput(t) == Trim(t) = <<>>

(* the first context.sync() comes back: the text is read, and the action   *)
(* goes on to generateReviewComments / callSimpleCompletion, which first   *)
(* awaits loadApiSettings                                                  *)
ReadDone(ok, t) ==
    /\ pc = "read"
    /\ hostInFlight' = hostInFlight - 1
    /\ queue' = <<>>
    /\ IF ~ok
       THEN /\ Caught("host")
            /\ UNCHANGED <<text, lastInput, histVars, storInFlight>>
       ELSE IF act = "reviewAgain"
       THEN /\ text' = lastInput
            /\ pc' = "load"
            /\ storInFlight' = Storage(PendingReads(officeAvail), 0)
            /\ UNCHANGED <<status, busy, lastInput, histVars>>
       ELSE IF IsEmptyInput(t)
       THEN /\ Ends(EmptyStatus[act])
            /\ UNCHANGED <<text, lastInput, histVars, storInFlight>>
       ELSE /\ text' = IF act = "reviewDocument" THEN Slice(Trim(t), MAX) ELSE Trim(t)
            /\ IF act \in ReviewActs
               THEN /\ lastInput' = text'
                    /\ inputFresh' = TRUE
                    /\ inputSettings' = [focuses |-> lastFocuses, custom |-> lastCustom]
               ELSE UNCHANGED <<lastInput, histVars>>
            /\ pc' = "load"
            /\ storInFlight' = Storage(PendingReads(officeAvail), 0)
            /\ UNCHANGED <<status, busy>>
    /\ UNCHANGED <<act, unhandled, lastFocuses, lastCustom, lastComments, lastSummary,
                   storeVars, result, idx, request, applied, searched, netInFlight, fetches,
                   funVars>>

(* the request is sent whatever the key (the check left out) *)
HasCredentialUnchecked(cfg) == TRUE

(* the API key is checked before the request is sent *)
HasCredential(cfg) == cfg.apiKey # ""

(* loadApiSettings comes back: the key is checked and the request is sent *)
LoadDone(officeFails, sessFails, left) ==
    /\ pc = "load"
    /\ storInFlight' = Storage(ReadsLeft(officeAvail, officeFails, left), 0)
    /\ LET r == loadApiSettings(officeAvail, officeStore, sessStore, officeFails, sessFails)
       IN  IF ~r.ok
           THEN /\ Caught("storage")
                /\ UNCHANGED <<request, fetches, netInFlight>>
           ELSE IF ~HasCredential(r.cfg)
           THEN /\ Caught(MissingCredential)
                /\ UNCHANGED <<request, fetches, netInFlight>>
           ELSE /\ request' = IF act \in EditActs
                              THEN SimpleRequest(act, text, r.cfg)
                              ELSE ReviewRequest(text, lastFocuses, lastCustom, r.cfg)
                /\ fetches' = fetches + 1
                /\ netInFlight' = netInFlight + 1
                /\ pc' = "fetch"
                /\ UNCHANGED <<status, busy>>
    /\ UNCHANGED <<act, unhandled, lastVars, storeVars, text, result, idx, hostVars,
                   hostInFlight, histVars, funVars>>

(* window.fetch comes back; the body is then read with res.json() or,     *)
(* for a non-success status, res.text()                                    *)
FetchDone(outcome) ==
    /\ pc = "fetch"
    /\ IF outcome = "reject"
       THEN /\ netInFlight' = netInFlight - 1
            /\ Caught("network")
       ELSE /\ pc' = IF outcome = "ok" THEN "body" ELSE "errbody"
            /\ UNCHANGED <<netInFlight, status, busy>>
    /\ UNCHANGED <<act, unhandled, lastVars, storeVars, localVars, hostVars,
                   hostInFlight, storInFlight, fetches, histVars, funVars>>

(* res.text() comes back on a non-success status: the LLM error is thrown *)
ErrorBodyDone(ok) ==
    /\ pc = "errbody"
    /\ netInFlight' = netInFlight - 1
    /\ Caught(IF ok THEN "LLM error" ELSE "network")
    /\ UNCHANGED <<act, unhandled, lastVars, storeVars, localVars, hostVars,
                   hostInFlight, storInFlight, fetches, histVars, funVars>>

(* insertCommentsForRange runs on to its next await; when the loop is over *)
(* the review is recorded and Word.run closes the batch with its own sync  *)
Continue(loop) ==
    /\ queue' = loop.queue
    /\ idx' = loop.idx
    /\ hostInFlight' = hostInFlight + (IF loop.syncs > 0 THEN loop.syncs ELSE 1)
    /\ IF loop.syncs > 0
       THEN /\ pc' = "search"
            /\ UNCHANGED <<status, lastComments, lastSummary>>
       ELSE /\ lastComments' = result'.comments
            /\ lastSummary' = result'.summary
            /\ status' = InsertedStatus(act, Len(result'.comments))
            /\ pc' = "final"

(* res.json() comes back in a review: extractJson, the normalisation, and  *)
(* the start of insertCommentsForRange                                     *)
ReviewBodyDone(outcome, p) ==
    /\ pc = "body"
    /\ act \notin EditActs
    /\ netInFlight' = netInFlight - 1
    /\ IF outcome # "parsed"
       THEN /\ Caught(IF outcome = "reject" THEN "network" ELSE outcome)
            /\ UNCHANGED <<result, idx, queue, hostInFlight, lastComments, lastSummary>>
       ELSE /\ result' = [set |-> TRUE] @@ NormalizeResult(p)
            /\ IF Len(result'.comments) = 0
               THEN /\ Ends(IF act = "reviewAgain" THEN "No new comments generated."
                                                   ELSE "No comments generated.")
                    /\ UNCHANGED <<idx, queue, hostInFlight, lastComments, lastSummary>>
               ELSE /\ Continue(RunLoop(result'.comments, 1, <<>>))
                    /\ UNCHANGED busy
    /\ UNCHANGED <<act, unhandled, lastInput, lastFocuses, lastCustom, storeVars, text, request,
                   applied, searched, storInFlight, fetches, histVars, funVars>>

(* the context.sync() of a search comes back: the batch has run, the       *)
(* comment goes on the first match or on the whole range, the loop goes on *)
SearchDone(ok, found) ==
    /\ pc = "search"
    /\ IF ~ok
       THEN /\ Caught("host")
            /\ queue' = <<>>
            /\ hostInFlight' = hostInFlight - 1
            /\ UNCHANGED <<applied, searched, idx, result, lastComments, lastSummary>>
       ELSE /\ applied' = applied \o Mutations(queue)
            /\ searched' = Append(searched, [k |-> idx, q |-> queue[Len(queue)].txt,
                                              found |-> found])
            /\ result' = result
            /\ LET c == result.comments[idx]
                   q == <<CommentCmd(IF found THEN "match" ELSE "range", c.comment)>>
                   loop == RunLoop(result.comments, idx + 1, q)
               IN  /\ queue' = loop.queue
                   /\ idx' = loop.idx
                   /\ hostInFlight' = hostInFlight - 1 + (IF loop.syncs > 0 THEN loop.syncs ELSE 1)
                   /\ IF loop.syncs > 0
                      THEN /\ pc' = "search"
                           /\ UNCHANGED <<status, lastComments, lastSummary>>
                      ELSE /\ lastComments' = result.comments
                           /\ lastSummary' = result.summary
                           /\ status' = InsertedStatus(act, Len(result.comments))
                           /\ pc' = "final"
            /\ UNCHANGED busy
    /\ UNCHANGED <<act, unhandled, lastInput, lastFocuses, lastCustom, storeVars, text, request,
                   netInFlight, storInFlight, fetches, histVars, funVars>>

(* the sync with which Word.run closes the batch comes back *)
FinalDone(ok) ==
    /\ pc = "final"
    /\ hostInFlight' = hostInFlight - 1
    /\ queue' = <<>>
    /\ IF ok
       THEN /\ applied' = applied \o Mutations(queue)
            /\ busy' = FALSE
            /\ pc' = "idle"
            /\ UNCHANGED status
       ELSE /\ Caught("host")
            /\ UNCHANGED applied
    /\ UNCHANGED <<act, unhandled, lastVars, storeVars, localVars, searched,
                   netInFlight, storInFlight, fetches, histVars, funVars>>

(* res.json() comes back in trimSelection or paraphraseSelection: the      *)
(* completion is trimmed (and split into variants), and replaces the range *)
EditBodyDone(ok, content) ==
    /\ pc = "body"
    /\ act \in EditActs
    /\ netInFlight' = netInFlight - 1
    /\ IF ~ok
       THEN /\ Caught("network")
            /\ UNCHANGED <<queue, hostInFlight>>
       ELSE LET raw == Trim(content)
                variants == ParseVariants(raw, 1).variants
                none == IF act = "trimSelection" THEN raw = <<>> ELSE variants = <<>>
                replacement == IF act = "trimSelection" THEN raw ELSE variants[1]
            IN  IF none
                THEN /\ Ends(IF act = "trimSelection" THEN "No trimmed result returned."
                                                      ELSE "No paraphrase returned.")
                     /\ UNCHANGED <<queue, hostInFlight>>
                ELSE /\ queue' = Append(queue, ReplaceCmd(replacement))
                     /\ hostInFlight' = hostInFlight + 1
                     /\ pc' = "replace"
                     /\ UNCHANGED <<status, busy>>
    /\ UNCHANGED <<act, unhandled, lastVars, storeVars, localVars, applied, searched,
                   storInFlight, fetches, histVars, funVars>>

(* the context.sync() after range.insertText comes back *)
ReplaceDone(ok) ==
    /\ pc = "replace"
    /\ hostInFlight' = hostInFlight - 1
    /\ queue' = <<>>
    /\ IF ok
       THEN /\ applied' = applied \o Mutations(queue)
            /\ Ends(IF act = "trimSelection" THEN "Selection trimmed." ELSE "Paraphrased selection.")
       ELSE /\ Caught("host")
            /\ UNCHANGED applied
    /\ UNCHANGED <<act, unhandled, lastVars, storeVars, localVars, searched,
                   netInFlight, storInFlight, fetches, histVars, funVars>>

(* insertSummaryAtEnd (112-126): the paragraphs of the report *)
SummaryParagraphs(summaryText, comments) ==
    <<ParagraphCmd(0, <<>>), ParagraphCmd(0, <<"AI Review Summary">>)>>
    \o (IF summaryText # NoSummary THEN <<ParagraphCmd(0, <<summaryText>>)>> ELSE <<>>)
    \o [i \in 1..Len(comments) |->
            ParagraphCmd(comments[i].comment,
                         IF comments[i].quote # Undefined THEN comments[i].quote ELSE <<>>)]

(* insertSummaryReport (318-327), up to the context.sync() of the report *)
StartSummary ==
    /\ pc = "idle"
    /\ act' = "insertSummaryReport"
    /\ Fresh
    /\ IF lastComments = <<>> /\ lastSummary = NoSummary
       THEN /\ status' = Status("No recent review to summarize. Run a review first.")
            /\ UNCHANGED <<pc, queue, hostInFlight>>
       ELSE /\ queue' = SummaryParagraphs(lastSummary, lastComments)
            /\ hostInFlight' = hostInFlight + 1
            /\ pc' = "sumsync"
            /\ UNCHANGED status
    /\ UNCHANGED <<busy, lastVars, storeVars, netInFlight, histVars, funVars>>

(* that context.sync() comes back; insertSummaryReport has no catch *)
SummaryDone(ok) ==
    /\ pc = "sumsync"
    /\ hostInFlight' = hostInFlight - 1
    /\ queue' = <<>>
    /\ pc' = "idle"
    /\ IF ok
       THEN /\ applied' = applied \o Mutations(queue)
            /\ status' = Status("Summary report inserted at end of document.")
            /\ UNCHANGED unhandled
       ELSE /\ unhandled' = TRUE
            /\ UNCHANGED <<applied, status>>
    /\ UNCHANGED <<act, busy, lastVars, storeVars, localVars, searched,
                   netInFlight, storInFlight, fetches, histVars, funVars>>

(* what saveApiSettings writes for the merged settings *)
Stored(merged) ==
    [apiKey  |-> Or(merged.apiKey, ""),
     baseUrl |-> Or(merged.baseUrl, DEFAULT_SETTINGS.baseUrl),
     model   |-> Or(merged.model, DEFAULT_SETTINGS.model)]

(* what the settings form can hold; the key field starts out blank *)
UiForms == {
    [apiKey |-> "",   baseUrl |-> "",   selVal |-> "gpt-4o-mini", custom |-> ""],
    [apiKey |-> "",   baseUrl |-> "u1", selVal |-> "custom",      custom |-> ""],
    [apiKey |-> "k1", baseUrl |-> "u1", selVal |-> "custom",      custom |-> "m1"] }

(* saveBtn.onclick (341-349) -> readSettingsFromUI -> saveApiSettings, up *)
(* to its await of loadApiSettings                                        *)
StartSave(form) ==
    /\ pc = "idle"
    /\ act' = "saveSettings"
    /\ busy' = TRUE
    /\ text' = <<>> /\ result' = NoResult /\ idx' = 0
    /\ applied' = <<>> /\ searched' = <<>> /\ fetches' = 0 /\ unhandled' = FALSE
    /\ request' = [NoRequest EXCEPT !.kind = "save", !.apiKey = form.apiKey,
                                    !.baseUrl = form.baseUrl,
                                    !.model = UiModel(form.selVal, form.custom)]
    /\ pc' = "saveload"
    /\ storInFlight' = Storage(PendingReads(officeAvail), 0)
    /\ UNCHANGED <<status, lastVars, storeVars, queue, hostInFlight, netInFlight,
                   histVars, funVars>>

(* loadApiSettings comes back in saveApiSettings: the merge, then the      *)
(* first setItem, or the sessionStorage fallback                           *)
SaveLoadDone(officeFails, sessFails, sessWriteFails, left) ==
    /\ pc = "saveload"
    /\ LET r == loadApiSettings(officeAvail, officeStore, sessStore, officeFails, sessFails)
           merged == Merge(r.cfg, request)
           reads == ReadsLeft(officeAvail, officeFails, left)
       IN  IF ~r.ok
           THEN /\ unhandled' = TRUE
                /\ busy' = FALSE
                /\ pc' = "idle"
                /\ storInFlight' = Storage(reads, 0)
                /\ UNCHANGED <<status, sessStore, idx>>
           ELSE IF officeAvail
           THEN /\ pc' = "savewrite"
                /\ idx' = 1
                /\ storInFlight' = Storage(reads, PendingWrites(officeAvail))
                /\ UNCHANGED <<status, busy, unhandled, sessStore>>
           ELSE /\ sessStore' = IF sessWriteFails THEN sessStore ELSE Stored(merged)
                /\ Ends("Settings saved.")
                /\ storInFlight' = Storage(reads, 0)
                /\ UNCHANGED <<unhandled, idx>>
    /\ UNCHANGED <<act, lastVars, officeAvail, officeStore, text, result, request, hostVars,
                   hostInFlight, netInFlight, fetches, histVars, funVars>>

(* a setItem of OfficeRuntime.storage comes back: the next key is written, *)
(* or the failure is caught and sessionStorage is written instead          *)
SaveWriteDone(ok, sessWriteFails) ==
    /\ pc = "savewrite"
    /\ LET merged == Stored(request)
           key == STORAGE_KEYS[idx]
       IN  IF ok
           THEN /\ officeStore' = [officeStore EXCEPT ![key] = merged[key]]
                /\ IF idx = 3
                   THEN /\ Ends("Settings saved.")
                        /\ storInFlight' = [storInFlight EXCEPT !.writes = 0]
                        /\ UNCHANGED idx
                   ELSE /\ idx' = idx + 1
                        /\ UNCHANGED <<pc, status, busy, storInFlight>>
                /\ UNCHANGED sessStore
           ELSE /\ sessStore' = IF sessWriteFails THEN sessStore ELSE merged
                /\ Ends("Settings saved.")
                /\ storInFlight' = [storInFlight EXCEPT !.writes = 0]
                /\ UNCHANGED <<officeStore, idx>>
    /\ UNCHANGED <<act, unhandled, lastVars, officeAvail, text, result, request, hostVars,
                   hostInFlight, netInFlight, fetches, histVars, funVars>>

(* a getItem that was still pending when Promise.all rejected comes back: *)
(* nothing awaits it any more                                             *)
ReadSettles ==
    /\ pc \notin {"load", "saveload"}
    /\ storInFlight.reads > 0
    /\ storInFlight' = [storInFlight EXCEPT !.reads = @ - 1]
    /\ UNCHANGED <<uiVars, lastVars, storeVars, localVars, hostVars,
                   hostInFlight, netInFlight, fetches, histVars, funVars>>

----------------------------------------------------------------------------
(* how many of the other two reads can be pending when one has failed *)
OtherReads == 0..(PendingReads(TRUE) - 1)

BodyOutcomes == {"reject", "parsed", MalformedResponse, SyntaxError}

PaneNext ==
    \/ \E a \in ReviewActs, ui \in UiSettings : StartReview(a, ui.focuses, ui.custom)
    \/ \E a \in EditActs : StartEdit(a)
    \/ StartAgain
    \/ \E ok \in BOOLEAN, t \in RangeTexts : ReadDone(ok, t)
    \/ \E of \in BOOLEAN, sf \in BOOLEAN, left \in OtherReads : LoadDone(of, sf, left)
    \/ \E o \in {"reject", "error", "ok"} : FetchDone(o)
    \/ \E ok \in BOOLEAN : ErrorBodyDone(ok)
    \/ \E o \in BodyOutcomes, p \in ParsedSamples : ReviewBodyDone(o, p)
    \/ \E ok \in BOOLEAN, found \in BOOLEAN : SearchDone(ok, found)
    \/ \E ok \in BOOLEAN : FinalDone(ok)
    \/ \E ok \in BOOLEAN, content \in CompletionTexts : EditBodyDone(ok, content)
    \/ \E ok \in BOOLEAN : ReplaceDone(ok)
    \/ StartSummary
    \/ \E ok \in BOOLEAN : SummaryDone(ok)
    \/ \E form \in UiForms : StartSave(form)
    \/ \E of \in BOOLEAN, sf \in BOOLEAN, sw \in BOOLEAN, left \in OtherReads :
          SaveLoadDone(of, sf, sw, left)
    \/ \E ok \in BOOLEAN, sw \in BOOLEAN : SaveWriteDone(ok, sw)
    \/ ReadSettles

Next == PaneNext

Spec == Init /\ [][Next]_vars

----------------------------------------------------------------------------
(* The pure functions of openai.ts, each applied to every input of a       *)
(* bounded set while the pane stays idle                                   *)

PaneIdle == PaneInit /\ officeAvail = FALSE /\ officeStore = EmptyStore

(* the normalisation of generateReviewComments *)
NormInputs ==
    {MkParsed(n, pat, ct, st) :
        n \in 0..MaxArr, pat \in [1..PatLen -> EntryKinds],
        ct \in {"arr", "str", "undef"}, st \in {"str", "num", "undef"}}
    \cup {ParsedNull}

NormInit == PaneIdle /\ fpc = "in" /\ fin \in NormInputs /\ fout = <<>>

NormStep ==
    /\ fpc = "in"
    /\ fout' = NormalizeResult(fin)
    /\ fpc' = "done"
    /\ UNCHANGED <<fin, paneVars>>

SpecNorm == NormInit /\ [][NormStep]_vars

(* extractJson on any text *)
JsonInit == PaneIdle /\ fpc = "in" /\ fin \in SeqUpTo(JsonTokens, MaxTextLen) /\ fout = <<>>

ExtractStep ==
    /\ fpc = "in"
    /\ fout' = extractJson(fin)
    /\ fpc' = "done"
    /\ UNCHANGED <<fin, paneVars>>

SpecJson == JsonInit /\ [][ExtractStep]_vars

(* extractJson on a JSON object text, bare and wrapped *)
RECURSIVE JsonValues(_)
JsonValues(d) ==
    IF d = 0 THEN {<<"num", <<>>>>, <<"obj", <<>>>>, <<"arr", <<>>>>}
    ELSE LET V == JsonValues(d - 1)
         IN  V \cup {<<"obj", <<v>>>> : v \in V} \cup {<<"arr", <<v>>>> : v \in V}

ObjValues == {v \in JsonValues(MaxDepth) : v[1] = "obj"}

ProseTokens == JsonTokens \ {"k", "1"}

WrapInit ==
    /\ PaneIdle
    /\ fpc = "in"
    /\ fin \in [v : ObjValues, pre : SeqUpTo(ProseTokens, MaxProse), post : SeqUpTo(ProseTokens, MaxProse)]
    /\ fout = <<>>

Wrapped(in) == in.pre \o Stringify(in.v) \o in.post

WrapStep ==
    /\ fpc = "in"
    /\ fout' = [plain |-> extractJson(Stringify(fin.v)), wrapped |-> extractJson(Wrapped(fin))]
    /\ fpc' = "done"
    /\ UNCHANGED <<fin, paneVars>>

SpecWrap == WrapInit /\ [][WrapStep]_vars

(* the variant splitter on any completion text and any requested count *)
ParaInit ==
    /\ PaneIdle
    /\ fpc = "in"
    /\ fin \in [raw : SeqUpTo(ParaTokens, MaxParaLen), n : (MinVariants - 1)..(MaxVariants + 1)]
    /\ fout = <<>>

ParaStep ==
    /\ fpc = "in"
    /\ fout' = ParseVariants(Trim(fin.raw), fin.n)
    /\ fpc' = "done"
    /\ UNCHANGED <<fin, paneVars>>

SpecPara == ParaInit /\ [][ParaStep]_vars

----------------------------------------------------------------------------
(* Properties *)

NetworkPcs == {"fetch", "body", "errbody"}
CompletionActs == ReadActs \cup {"reviewAgain"}
MissingStatus == Status(ErrorStatus(MissingCredential))

(* C1: a request is only ever sent with a non-empty resolved API key, and  *)
(* an action that failed with the missing-credential error has sent no     *)
(* request: the key is checked before the fetch, in the review path and in *)
(* the trim/paraphrase path alike.                                         *)
CredentialCheckedBeforeFetch ==
    /\ (pc \in NetworkPcs \/ fetches > 0 \/ netInFlight > 0) => request.apiKey # ""
    /\ (act \in CompletionActs /\ status = MissingStatus)
          => (fetches = 0 /\ netInFlight = 0 /\ request = NoRequest /\ pc = "idle")
    /\ (pc = "load" /\ act # "saveSettings") => (fetches = 0 /\ netInFlight = 0)

(* a paraphrase that stopped at the missing key, nothing sent *)
MissingCredentialReached ==
    /\ status = MissingStatus
    /\ act = "paraphraseSelection"
    /\ text # <<>>
    /\ fetches = 0

(* C2: when the text read by reviewSelection, reviewDocument,              *)
(* trimSelection or paraphraseSelection is empty or blank, the action      *)
(* sends no request, changes nothing in the document, and ends with the    *)
(* empty-input message of that action, not an error.                       *)
EmptyInputIsNoOp ==
    (act \in ReadActs /\ text = <<>>) =>
        /\ pc \in {"read", "idle"}
        /\ fetches = 0 /\ netInFlight = 0 /\ request = NoRequest
        /\ applied = <<>> /\ Mutations(queue) = <<>>
        /\ pc = "idle" => status \in {Status(EmptyStatus[act]), Status(ErrorStatus("host"))}

(* a review of an empty document that ended with its message *)
EmptyDocumentReached ==
    /\ act = "reviewDocument"
    /\ pc = "idle"
    /\ status = Status("Document is empty.")
    /\ busy = FALSE

SearchesPending == Len(SelectSeq(queue, LAMBDA c : c.op = "search"))

(* C3: within an action the response is parsed only after the network call *)
(* has come back, a comment is only issued to the document once the        *)
(* response is parsed, and the comments are handled one at a time: the     *)
(* search of the next comment is not issued before the sync of the         *)
(* previous one has come back, so at most one host call is in flight.      *)
StepsStrictlyOrdered ==
    /\ hostInFlight \in {0, 1} /\ netInFlight \in {0, 1}
    /\ hostInFlight + netInFlight <= 1
    /\ result.set => (netInFlight = 0 /\ fetches = 1 /\ pc \notin NetworkPcs)
    /\ (act \notin {"insertSummaryReport"} /\ (Mutations(queue) # <<>> \/ applied # <<>>))
          => (netInFlight = 0 /\ fetches = 1 /\ (act \notin EditActs => result.set))
    /\ \A i \in 1..Len(queue) :
          queue[i].op = "insertComment" => \E j \in 1..Len(result.comments) : result.comments[j].comment = queue[i].k
    /\ SearchesPending <= 1
    /\ pc = "search" => (hostInFlight = 1 /\ SearchesPending = 1 /\ queue[Len(queue)].k = idx)

(* the search of the second comment is in flight, the first comment issued *)
SecondSearchReached ==
    /\ pc = "search"
    /\ idx = 2
    /\ hostInFlight = 1
    /\ Len(queue) = 2 /\ queue[1].op = "insertComment"

(* C4: no failure raised in a user action escapes it as an unhandled       *)
(* rejection.                                                              *)
NoFailureEscapes == unhandled = FALSE

(* C5: when a review action has ended, the last input it leaves was        *)
(* written by that same action.                                            *)
ReviewOverwritesLastInput ==
    (pc = "idle" /\ act \in ReviewActs /\ lastInput # Null) => inputFresh

(* C6: the request of reviewAgain carries the last input with the focus    *)
(* areas and custom instructions of the review that recorded that input,   *)
(* and reviewAgain sends nothing when no input is recorded.                *)
AgainReusesOneReview ==
    act = "reviewAgain" =>
        /\ request.kind = "review" =>
              /\ request.input = lastInput
              /\ request.custom = inputSettings.custom
              /\ request.focus = buildPrompt(lastInput, inputSettings.focuses, inputSettings.custom).focus
        /\ lastInput = Null => (fetches = 0 /\ request = NoRequest /\ pc = "idle")

(* C7: the comments returned are the first at most 10, in their order, of  *)
(* the entries of the parsed `comments` array whose comment is a string    *)
(* (none when `comments` is no array); each has a severity among info,     *)
(* suggestion and warning, any other or absent one mapped to info; the     *)
(* summary is returned only when it is a string.                           *)
NormalizedAsClaimed ==
    fpc = "done" =>
        LET arr  == IF ~fin.nul /\ fin.commentsT = "arr" THEN fin.comments ELSE <<>>
            keep == {i \in 1..Len(arr) : arr[i].obj /\ arr[i].comment.t = "str"}
            nth(j) == CHOOSE i \in keep : Cardinality({m \in keep : m <= i}) = j
            out  == fout.comments
        IN  /\ Len(out) = IF Cardinality(keep) > MaxComments THEN MaxComments ELSE Cardinality(keep)
            /\ \A j \in 1..Len(out) :
                  /\ out[j].comment = arr[nth(j)].comment.v
                  /\ out[j].severity \in Severities
                  /\ out[j].severity = IF arr[nth(j)].severity \in {"suggestion", "warning"}
                                       THEN arr[nth(j)].severity ELSE "info"
            /\ fout.summary # NoSummary <=> (~fin.nul /\ fin.summaryT = "str")
            /\ fout.summary # NoSummary => fout.summary = fin.summary

(* more than 10 entries kept after one was dropped, an unknown severity mapped *)
TruncatedAndMappedReached ==
    /\ fpc = "done"
    /\ fin.commentsT = "arr"
    /\ Len(fin.comments) > MaxComments
    /\ fin.comments[1].comment.t = "num"
    /\ fin.comments[2].severity = "bogus"
    /\ Len(fout.comments) = MaxComments
    /\ fout.comments[1].comment = 2
    /\ fout.comments[1].severity = "info"

(* C8: extractJson ends with a parsed value or with the MalformedResponse  *)
(* failure, and with no other kind of failure.                             *)
FailsOnlyAsMalformedResponse ==
    fpc = "done" =>
        /\ fout.kind \in {"value", "error"}
        /\ fout.kind = "error" => fout.err = MalformedResponse

HasNoBrace(t) == \A i \in 1..Len(t) : t[i] \notin {"{", "}"}

(* C9 as stated: extractJson of a JSON object text returns the value the   *)
(* text denotes, and so does extractJson of the text wrapped in prose or   *)
(* in code-fence markers.                                                  *)
WrappedObjectRoundTrips ==
    fpc = "done" =>
        /\ fout.plain.kind = "value" /\ fout.plain.val = fin.v
        /\ fout.wrapped.kind = "value" /\ fout.wrapped.val = fin.v

(* C9 as amended: the wrapped text gives the same value when the wrapping  *)
(* holds no brace and does not make the whole text a JSON text itself.     *)
BraceFreeWrappingRoundTrips ==
    fpc = "done" =>
        /\ fout.plain.kind = "value" /\ fout.plain.val = fin.v
        /\ (HasNoBrace(fin.pre) /\ HasNoBrace(fin.post)) =>
              /\ fout.wrapped.kind = "value"
              /\ ~JsonParse(Wrapped(fin)).ok => fout.wrapped.val = fin.v

(* an object in a json fence, found by the slice between the braces *)
FencedObjectReached ==
    /\ fpc = "done"
    /\ fin.pre = <<"J">> /\ fin.post = <<"F">>
    /\ fin.v = <<"obj", << <<"num", <<>>>> >> >>
    /\ fout.wrapped.kind = "value" /\ fout.wrapped.stage = 2
    /\ fout.wrapped.val = fin.v

HeaderSeen(raw) == \E i \in 1..Len(Lines(Trim(raw))) : IsHeader(Lines(Trim(raw))[i])

(* C10: for a non-empty completion text at most n variants are returned,   *)
(* and the whole trimmed text is returned as the single variant if and     *)
(* only if no `Variant <N>` header line was recognised in it.              *)
FallbackIffNoHeader ==
    (fpc = "done" /\ Trim(fin.raw) # <<>>) =>
        /\ fout.fallback <=> ~HeaderSeen(fin.raw)
        /\ fout.fallback => fout.variants = <<Trim(fin.raw)>>
        /\ ~fout.fallback => Len(fout.variants) <= Clamp(fin.n)

(* C11 as stated: an action never has more than one boundary operation     *)
(* (network call, host call, storage call) pending, the storage reads of   *)
(* loadApiSettings included.                                               *)
OneBoundaryOperationPending ==
    hostInFlight + netInFlight + storInFlight.reads + storInFlight.writes <= 1

(* C11 as amended: network calls, host calls and storage writes are        *)
(* awaited one at a time, so at most one of them is pending, and none      *)
(* while the action awaits loadApiSettings; the storage reads of           *)
(* loadApiSettings are started together, and those still pending after one *)
(* of them failed stay pending while the action goes on.                   *)
OnlySettingsReadsOverlap ==
    /\ hostInFlight + netInFlight + storInFlight.writes <= 1
    /\ pc \in {"load", "saveload"} =>
          /\ storInFlight.reads = PendingReads(officeAvail)
          /\ hostInFlight + netInFlight + storInFlight.writes = 0
    /\ pc \notin {"load", "saveload"} => storInFlight.reads < PendingReads(TRUE)
    /\ storInFlight.writes > 0 => (pc = "savewrite" /\ officeAvail)
    /\ storInFlight.reads > 0 => officeAvail

(* a review awaiting the three reads of its settings, nothing else pending *)
SettingsReadsPendingReached ==
    /\ act = "reviewSelection"
    /\ pc = "load"
    /\ storInFlight.reads = 3
    /\ hostInFlight + netInFlight = 0

(* the comments issued to the document so far, carried out or still queued *)
Issued == applied \o Mutations(queue)

(* a review whose comments all went in *)
Inserted ==
    /\ pc = "idle"
    /\ act \in CompletionActs \ EditActs
    /\ result.set
    /\ status = InsertedStatus(act, Len(result.comments))

HasQuote(c) == c.quote # Undefined /\ c.quote # <<>>

SearchedAt(i)   == \E j \in 1..Len(searched) : searched[j].k = i
FoundAt(i)      == \E j \in 1..Len(searched) : searched[j].k = i /\ searched[j].found
SearchedOnce(i) == Cardinality({j \in 1..Len(searched) : searched[j].k = i}) <= 1

(* comment i is issued as the i-th, once its own search, if any, is back *)
InListOrder ==
    /\ Len(Issued) <= Len(result.comments)
    /\ Inserted => Len(applied) = Len(result.comments)
    /\ \A i \in 1..Len(Issued) :
          /\ Issued[i].op = "insertComment"
          /\ Issued[i].k = result.comments[i].comment
          /\ Issued[i].anchor = (IF FoundAt(i) THEN "match" ELSE "range")
    /\ \A j \in 1..Len(searched) :
          /\ searched[j].k <= Len(Issued) + 1
          /\ searched[j].q = Trim(result.comments[searched[j].k].quote)
    /\ \A i \in 1..Len(result.comments) : SearchedOnce(i)

(* C12 as stated: one comment is attached per ReviewComment, in list       *)
(* order; a comment whose quote is present goes on the first match of a    *)
(* search made first, and on the whole range only when that search found   *)
(* nothing or no quote is present.                                         *)
EveryQuoteSearchedFirst ==
    (act \in CompletionActs \ EditActs) =>
        /\ InListOrder
        /\ \A i \in 1..Len(Issued) : HasQuote(result.comments[i]) <=> SearchedAt(i)

(* C12 as amended: the search is made for a quote of at least 4 characters *)
(* once trimmed; a comment with a shorter quote, or with none, goes on the *)
(* whole range with no search.                                             *)
LongQuoteSearchedFirst ==
    (act \in CompletionActs \ EditActs) =>
        /\ InListOrder
        /\ \A i \in 1..Len(Issued) :
              (HasQuote(result.comments[i]) /\ Len(Trim(result.comments[i].quote)) >= MinQuoteLen)
                 <=> SearchedAt(i)

(* three comments in: the first after a search that found nothing, the     *)
(* second with a quote too short to search, the third with no quote        *)
UnanchoredThreeWaysReached ==
    /\ Inserted
    /\ act = "reviewDocument"
    /\ searched = <<[k |-> 1, q |-> QLong, found |-> FALSE]>>
    /\ Len(applied) = 3
    /\ \A i \in 1..3 : applied[i].anchor = "range"
    /\ result.comments[2].quote = QPad

(* C13: a save-settings action whose API key field is blank leaves the     *)
(* stored API key as it was: no step of it changes the key in either       *)
(* store, so that the next loadApiSettings returns the old key.            *)
BlankKeyKeepsStoredKey ==
    [][(act = "saveSettings" /\ request.kind = "save" /\ request.apiKey = "")
          => (officeStore'.apiKey = officeStore.apiKey /\ sessStore'.apiKey = sessStore.apiKey)]_vars

(* the actions that call setBusy(true) *)
BusyActs == CompletionActs \cup {"saveSettings"}

(* C14: the busy flag is set exactly while one of the six actions that set *)
(* it is in flight, and is clear whenever no action is in flight, whatever *)
(* the path on which the last action ended.                                *)
BusyOnlyWhileInFlight ==
    /\ pc = "idle" => busy = FALSE
    /\ busy = TRUE => act \in BusyActs
    /\ (pc # "idle" /\ act \in BusyActs) => busy = TRUE

(* a save whose failure escaped the handler, the busy flag cleared all the same *)
BusyClearedAfterEscapeReached ==
    /\ pc = "idle"
    /\ act = "saveSettings"
    /\ unhandled = TRUE
    /\ busy = FALSE

====
